---------------------------- MODULE Spec2Model ----------------------------
(***************************************************************************)
(* Model of xrk.py: the XRK session object (lap table, best lap, the       *)
(* cached time/distance index, the two directional lookups) and            *)
(* XRKChannel.samples.                                                     *)
(*                                                                         *)
(* Numbers.  Every quantity the program rounds with round(x, 4) is held    *)
(* as an integer count of 1e-4 units ("ticks": 1e-4 s or 1e-4 m).  A raw   *)
(* double handed over by the decoder DLL is held as an integer count of    *)
(* 1/RawUnit, so that round(x/1000.0, 4) and round(x, 4) are two different *)
(* computations with observable rounding.  Speeds are whole m/s, so the    *)
(* cumulative distances are whole ticks.  round() is round-half-even.      *)
(***************************************************************************)
EXTENDS Integers, Sequences, FiniteSets

VARIABLES
    dec_ref,       \* XRKDLL answer for the whole-session 'GPS Speed' channel
    dec_laps,      \* XRKDLL get_lap_info answers (raw doubles), one per lap
    timedistance,  \* the cached_property XRK.timedistance
    bestlap_memo,  \* the cached_property XRK.bestlap
    call           \* the most recent API call: arguments, trace and outcome

vars == <<dec_ref, dec_laps, timedistance, bestlap_memo, call>>

--------------------------------------------------------------------------
(* Bounds of the model *)

MaxRefSamples == 3
MaxChanSamples == 2
MaxLaps == 2

(* Program constants *)

MsPerSecond == 1000
TicksPerUnit == 10000
(* resolution at which a raw c_double is represented *)
RawUnit == 30000

None == <<>>
Some(v) == <<v>>
(* Python truthiness of the lap argument: None and 0 are both false *)
Truthy(lap) == lap # None /\ lap[1] # 0

Range(s) == {s[i] : i \in 1..Len(s)}
IsSorted(s) == \A i \in 1..(Len(s) - 1) : s[i] <= s[i + 1]
IsStrict(s) == \A i \in 1..(Len(s) - 1) : s[i] < s[i + 1]

--------------------------------------------------------------------------
(* round(): nearest integer to a/b, ties to even *)
RoundDiv(a, b) ==
    LET n == IF b < 0 THEN -a ELSE a
        d == IF b < 0 THEN -b ELSE b
        q == n \div d
        r == n % d
    IN  IF 2 * r < d THEN q
        ELSE IF 2 * r > d THEN q + 1
        ELSE IF q % 2 = 0 THEN q ELSE q + 1

(* round(ptimes[i]/1000.0, 4), in ticks *)
NormSession(raw) == RoundDiv(raw * TicksPerUnit, RawUnit * MsPerSecond)

(* round(ptimes[i], 4), in ticks *)
NormLap(raw) == RoundDiv(raw * TicksPerUnit, RawUnit)

--------------------------------------------------------------------------
(* bisect.bisect_left(a, x): 0-based insertion point, as the loop runs *)
RECURSIVE BisectLoop(_, _, _, _)
BisectLoop(a, x, lo, hi) ==
    IF lo < hi
    THEN LET mid == (lo + hi) \div 2
         IN  IF a[mid + 1] < x
             THEN BisectLoop(a, x, mid + 1, hi)
             ELSE BisectLoop(a, x, lo, mid)
    ELSE lo

(* mutant: the rightmost insertion point, bisect.bisect_right *)
RECURSIVE BisectRightLoop(_, _, _, _)
BisectRightLoop(a, x, lo, hi) ==
    IF lo < hi
    THEN LET mid == (lo + hi) \div 2
         IN  IF x < a[mid + 1]
             THEN BisectRightLoop(a, x, lo, mid)
             ELSE BisectRightLoop(a, x, mid + 1, hi)
    ELSE lo

bisect_right(a, x) == BisectRightLoop(a, x, 0, Len(a))

bisect_left(a, x) == BisectLoop(a, x, 0, Len(a))

Ok(v) == [status |-> "ok", value |-> v]
Raise(e) == [status |-> e, value |-> 0]

(* XRK._tdlookup after the bisection; haystack[idx] of the code is        *)
(* haystack[idx + 1] here                                                  *)
LookupAt(idx, needle, haystack, cdata) ==
    IF idx >= Len(haystack) THEN Ok(cdata[Len(cdata)])
    ELSE IF haystack[idx + 1] = needle THEN Ok(cdata[idx + 1])
    ELSE IF idx + 2 > Len(haystack) THEN Raise("IndexError")
    ELSE IF haystack[idx + 2] - haystack[idx + 1] = 0 THEN Ok(cdata[idx + 2])
    ELSE Ok(RoundDiv(cdata[idx + 1] * (haystack[idx + 2] - haystack[idx + 1])
                       + (cdata[idx + 2] - cdata[idx + 1])
                         * (needle - haystack[idx + 1]),
                     haystack[idx + 2] - haystack[idx + 1]))

(* XRK._tdlookup *)
tdlookup(needle, haystack, cdata) ==
    LookupAt(bisect_left(haystack, needle), needle, haystack, cdata)

--------------------------------------------------------------------------
(* XRK.lap_info: get_lap_info per lap, both doubles rounded to 4 places *)
lap_info(laps) ==
    [i \in 1..Len(laps) |->
        [start |-> NormLap(laps[i].start), duration |-> NormLap(laps[i].duration)]]

(* XRK.bestlap: the scan, with its strict comparison; laps are 0-based *)
RECURSIVE BestLapScan(_, _, _)
BestLapScan(info, i, best) ==
    IF i >= Len(info) THEN best
    ELSE BestLapScan(info, i + 1,
                     IF info[i + 1].duration < info[best + 1].duration
                     THEN i ELSE best)

(* mutant: the scan with <= in place of < *)
RECURSIVE BestLapScanLe(_, _, _)
BestLapScanLe(info, i, best) ==
    IF i >= Len(info) THEN best
    ELSE BestLapScanLe(info, i + 1,
                       IF info[i + 1].duration <= info[best + 1].duration
                       THEN i ELSE best)

bestlap_le(info) == BestLapScanLe(info, 0, 0)

bestlap(info) == BestLapScan(info, 0, 0)

--------------------------------------------------------------------------
(* XRKChannel.samples, lines 88-109: the count, the assert, the fetch, the *)
(* assert.  sess / lapr are the decoder's answers for the whole session    *)
(* and for the lap: [count, ok, times, values].                            *)
(* mutant: the fetch's success flag is not asserted *)
FetchSamples_unchecked(lap, sess, lapr) ==
    LET counts == IF Truthy(lap)
                  THEN << <<"get_channel_samples_count", sess.count>>,
                          <<"get_lap_channel_samples_count", lapr.count>> >>
                  ELSE << <<"get_channel_samples_count", sess.count>> >>
        sample_count == IF Truthy(lap) THEN lapr.count ELSE sess.count
        used == IF Truthy(lap) THEN lapr ELSE sess
        fetch == IF Truthy(lap) THEN "get_lap_channel_samples"
                                ELSE "get_channel_samples"
    IN  IF ~(sample_count > 0)
        THEN [status |-> "AssertionError", sample_count |-> sample_count,
              count_calls |-> counts, fetch_calls |-> <<>>,
              ptimes |-> <<>>, pvalues |-> <<>>]
        ELSE [status |-> "ok", sample_count |-> sample_count,
              count_calls |-> counts, fetch_calls |-> << <<fetch, used.ok>> >>,
              ptimes |-> used.times, pvalues |-> used.values]

FetchSamples(lap, sess, lapr) ==
    LET counts == IF Truthy(lap)
                  THEN << <<"get_channel_samples_count", sess.count>>,
                          <<"get_lap_channel_samples_count", lapr.count>> >>
                  ELSE << <<"get_channel_samples_count", sess.count>> >>
        sample_count == IF Truthy(lap) THEN lapr.count ELSE sess.count
        used == IF Truthy(lap) THEN lapr ELSE sess
        fetch == IF Truthy(lap) THEN "get_lap_channel_samples"
                                ELSE "get_channel_samples"
    IN  IF ~(sample_count > 0)
        THEN [status |-> "AssertionError", sample_count |-> sample_count,
              count_calls |-> counts, fetch_calls |-> <<>>,
              ptimes |-> <<>>, pvalues |-> <<>>]
        ELSE IF ~(used.ok > 0)
        THEN [status |-> "AssertionError", sample_count |-> sample_count,
              count_calls |-> counts, fetch_calls |-> << <<fetch, used.ok>> >>,
              ptimes |-> <<>>, pvalues |-> <<>>]
        ELSE [status |-> "ok", sample_count |-> sample_count,
              count_calls |-> counts, fetch_calls |-> << <<fetch, used.ok>> >>,
              ptimes |-> used.times, pvalues |-> used.values]

(* lines 118-121: the timestamp of sample i in seconds *)
SampleTime(lap, raw) == IF ~Truthy(lap) THEN NormSession(raw) ELSE NormLap(raw)

(* mutant: the loop stops one sample short *)
SampleRange_short(sample_count) == 1..(sample_count - 1)

(* line 113: range(sample_count) *)
SampleRange(sample_count) == 1..sample_count

(* the timestamps and the values the loop of lines 113-127 collects *)
SampleTimes(lap, sample_count, ptimes) ==
    [i \in SampleRange(sample_count) |-> SampleTime(lap, ptimes[i])]
SampleValues(sample_count, pvalues) ==
    [i \in SampleRange(sample_count) |-> pvalues[i]]

(* The per-sample loop of lines 113-127 in the distance domain: one        *)
(* timetodistance per sample, stopping at the first one that raises.       *)
RECURSIVE LookupLoop(_, _, _, _)
LookupStep(ts, td, i, acc, r) ==
    IF r.status # "ok"
    THEN [status |-> r.status, xvalues |-> acc, lookups |-> i]
    ELSE LookupLoop(ts, td, i + 1, Append(acc, r.value))

LookupLoop(ts, td, i, acc) ==
    IF i > Len(ts) THEN [status |-> "ok", xvalues |-> acc, lookups |-> Len(ts)]
    ELSE LookupStep(ts, td, i, acc, tdlookup(ts[i], td.times, td.distances))

(* what a samples() call leaves behind: its outcome and its trace *)
Outcome(f, status, x, y, lookups, td_read) ==
    [status |-> status, x |-> x, y |-> y,
     sample_count |-> f.sample_count, count_calls |-> f.count_calls,
     fetch_calls |-> f.fetch_calls, ptimes |-> f.ptimes,
     lookups |-> lookups, td_read |-> td_read]

Shift(xvalues, lap_start) == [i \in 1..Len(xvalues) |-> xvalues[i] - lap_start]

(* lines 134-139, distance domain: the lap start through timetodistance *)
ShiftedByDistance(f, xvalues, y, s, lookups) ==
    IF s.status # "ok"
    THEN Outcome(f, s.status, <<>>, <<>>, lookups + 1, TRUE)
    ELSE Outcome(f, "ok", Shift(xvalues, s.value), y, lookups + 1, TRUE)

(* lines 129-139: lap-relative x values, and the return *)
Relative(f, lap, xtime, xabsolute, xvalues, y, lookups, td_read, tdget, info) ==
    IF ~xabsolute /\ Truthy(lap)
    THEN IF lap[1] >= Len(info)
         THEN Outcome(f, "IndexError", <<>>, <<>>, lookups, td_read)
         ELSE IF xtime
         THEN Outcome(f, "ok", Shift(xvalues, info[lap[1] + 1].start), y,
                      lookups, td_read)
         ELSE ShiftedByDistance(f, xvalues, y,
                                tdlookup(info[lap[1] + 1].start,
                                         tdget.td.times, tdget.td.distances),
                                lookups)
    ELSE Outcome(f, "ok", xvalues, y, lookups, td_read)

(* lines 123-127, distance domain, once the loop has run *)
Converted(f, lap, xabsolute, l, tdget, info) ==
    IF l.status # "ok"
    THEN Outcome(f, l.status, <<>>, <<>>, l.lookups, TRUE)
    ELSE Relative(f, lap, FALSE, xabsolute, l.xvalues,
                  SampleValues(f.sample_count, f.pvalues), l.lookups, TRUE,
                  tdget, info)

(* lines 111-139, after the count and the fetch *)
Windowed(f, lap, xtime, xabsolute, tdget, info) ==
    IF f.status # "ok" THEN Outcome(f, f.status, <<>>, <<>>, 0, FALSE)
    ELSE IF xtime
    THEN Relative(f, lap, TRUE, xabsolute,
                  SampleTimes(lap, f.sample_count, f.ptimes),
                  SampleValues(f.sample_count, f.pvalues), 0, FALSE, tdget, info)
    ELSE IF tdget.status # "ok"
    THEN Outcome(f, tdget.status, <<>>, <<>>, 1, TRUE)
    ELSE Converted(f, lap, xabsolute,
                   LookupLoop(SampleTimes(lap, f.sample_count, f.ptimes),
                              tdget.td, 1, <<>>),
                   tdget, info)

(* XRKChannel.samples.  tdget is what reading self.xrk.timedistance gives  *)
(* (used only on the distance path); info is self.xrk.lap_info.            *)
samples(lap, xtime, xabsolute, sess, lapr, tdget, info) ==
    Windowed(FetchSamples(lap, sess, lapr), lap, xtime, xabsolute, tdget, info)

--------------------------------------------------------------------------
(* XRK.timedistance, lines 273-279: the cumulative distance list *)
(* mutant: the earlier sample's speed over the interval *)
RECURSIVE Integrate_prev(_, _, _, _, _)
Integrate_prev(seconds, speeds, i, totdistance, distance) ==
    IF i >= Len(seconds) THEN distance
    ELSE LET timedelta == seconds[i + 1] - seconds[i]
             traveled == timedelta * speeds[i]
         IN  Integrate_prev(seconds, speeds, i + 1, totdistance + traveled,
                            Append(distance, totdistance + traveled))

RECURSIVE Integrate(_, _, _, _, _)
Integrate(seconds, speeds, i, totdistance, distance) ==
    IF i >= Len(seconds) THEN distance
    ELSE LET timedelta == seconds[i + 1] - seconds[i]
             traveled == timedelta * speeds[i + 1]
         IN  Integrate(seconds, speeds, i + 1, totdistance + traveled,
                       Append(distance, totdistance + traveled))

NotBuilt == [built |-> FALSE, times |-> <<>>, distances |-> <<>>]

(* The body of the cached property: samples of 'GPS Speed' in absolute     *)
(* time, then the integration.  An exception leaves nothing cached.        *)
BuildFrom(s) ==
    IF s.status # "ok"
    THEN [status |-> s.status, td |-> NotBuilt, built |-> FALSE,
          fetch_calls |-> s.fetch_calls]
    ELSE [status |-> "ok",
          td |-> [built |-> TRUE, times |-> s.x,
                  distances |-> Integrate(s.x, s.y, 1, 0, <<0>>)],
          built |-> TRUE, fetch_calls |-> s.fetch_calls]

timedistance_build(ref) ==
    BuildFrom(samples(None, TRUE, TRUE, ref, ref, [status |-> "unused"], <<>>))

(* mutant: a plain property, recomputed on every read *)
timedistance_get_uncached(td, ref) == timedistance_build(ref)

(* Reading self.timedistance: functools.cached_property *)
timedistance_get(td, ref) ==
    IF td.built
    THEN [status |-> "ok", td |-> td, built |-> FALSE, fetch_calls |-> <<>>]
    ELSE timedistance_build(ref)

--------------------------------------------------------------------------
(* The decoder's possible answers *)

RECURSIVE Cumulate(_, _, _)
Cumulate(gaps, i, acc) ==
    IF i > Len(gaps) THEN acc
    ELSE Cumulate(gaps, i + 1, Append(acc, acc[Len(acc)] + gaps[i]))

Good(ts, vs) == [count |-> Len(ts), ok |-> 1, times |-> ts, values |-> vs]

(* a zero count, a negative count, a fetch that reports failure *)
BadResponses ==
    { [count |-> 0, ok |-> 1, times |-> <<>>, values |-> <<>>],
      [count |-> -1, ok |-> 1, times |-> <<>>, values |-> <<>>],
      [count |-> 1, ok |-> 0, times |-> <<0>>, values |-> <<0>>] }

(* whole-session 'GPS Speed': raw milliseconds, speeds in m/s *)
RefGaps == {0, 6000, 7000}
RefSpeeds == {-1, 0, 1, 2}
RefResponses(maxn, gaps, speeds) ==
    UNION { { Good(Cumulate(g, 1, <<0>>), v) :
                g \in [1..(n - 1) -> gaps], v \in [1..n -> speeds] } :
            n \in 1..maxn }

(* any other channel, whole session (raw milliseconds) and one lap (raw    *)
(* seconds): non-decreasing timestamps                                     *)
SessRawTimes == {0, 3000, 10000}
LapRawTimes == {0, 3, 10}
ChanValues == {4}
ChanResponses(raw) ==
    UNION { { Good(t, v) : t \in {s \in [1..n -> raw] : IsSorted(s)},
                           v \in [1..n -> ChanValues] } :
            n \in 1..MaxChanSamples }
    \cup BadResponses
SessResponses == ChanResponses(SessRawTimes)
(* a lap-scoped call reads the whole-session count and overwrites it *)
SessProbes == { Good(<<0>>, <<4>>),
                [count |-> 0, ok |-> 1, times |-> <<>>, values |-> <<>>] }
LapResponses == ChanResponses(LapRawTimes)

(* lap tables: raw seconds, each lap starting where the previous one ends *)
RECURSIVE LapsOf(_, _, _)
LapsOf(durs, i, acc) ==
    IF i > Len(durs) THEN acc
    ELSE LapsOf(durs, i + 1,
                Append(acc, [start |-> IF i = 1 THEN 0
                                       ELSE acc[i - 1].start + acc[i - 1].duration,
                             duration |-> durs[i]]))

LapTables(maxn, durations) ==
    UNION { { LapsOf(d, 1, <<>>) : d \in [1..n -> durations] } : n \in 0..maxn }

LapRawDurations == {3, 6, 7, 9}

Channels == {"GPS Speed", "RPM"}
LapArgs == {None} \cup {Some(i) : i \in 0..(MaxLaps - 1)}

--------------------------------------------------------------------------
NoCall ==
    [op |-> "none", ch |-> "", lap |-> None, xtime |-> FALSE, xabsolute |-> FALSE,
     needle |-> 0, chain |-> None, status |-> "ok", ret |-> 0,
     x |-> <<>>, y |-> <<>>, sample_count |-> 0, count_calls |-> <<>>,
     fetch_calls |-> <<>>, ptimes |-> <<>>, lookups |-> 0, td_read |-> FALSE,
     built |-> FALSE, ref_fetch_calls |-> <<>>]

TypeOK ==
    /\ timedistance.built \in BOOLEAN
    /\ Len(timedistance.times) = Len(timedistance.distances)
    /\ call.status \in {"ok", "AssertionError", "IndexError"}

(* needles around what the index holds (or would hold) *)
IndexOf(ref) == timedistance_build(ref).td
Span(s) ==
    IF s = <<>> THEN {0}
    ELSE LET lo == CHOOSE v \in Range(s) : \A w \in Range(s) : v <= w
             hi == CHOOSE v \in Range(s) : \A w \in Range(s) : v >= w
         IN  (lo - 1)..(hi + 1)

(* The client is single-threaded and synchronous: it makes one call at a   *)
(* time, and either feeds a timetodistance result into distancetotime      *)
(* (test_xrk.py, testTdLookup) or lets the result go before its next call. *)
Idle == call.op = "none"

Forget ==
    /\ ~Idle
    /\ call' = NoCall
    /\ UNCHANGED <<dec_ref, dec_laps, timedistance, bestlap_memo>>

(* the record of a lookup call *)
LookupCall(op, needle, from, g, r) ==
    [NoCall EXCEPT !.op = op, !.needle = needle, !.chain = from,
                   !.status = r.status, !.ret = r.value,
                   !.td_read = TRUE, !.built = g.built,
                   !.ref_fetch_calls = g.fetch_calls]

(* XRK.timetodistance *)
TimeToDistance(itime) ==
    /\ Idle
    /\ \E g \in {timedistance_get(timedistance, dec_ref)} :
          /\ timedistance' = g.td
          /\ call' = LookupCall("timetodistance", itime, None, g,
                                IF g.status = "ok"
                                THEN tdlookup(itime, g.td.times, g.td.distances)
                                ELSE Raise(g.status))
    /\ UNCHANGED <<dec_ref, dec_laps, bestlap_memo>>

(* XRK.distancetotime; chain records that the argument is what the         *)
(* preceding timetodistance(t) returned                                    *)
DistanceToTime(idistance) ==
    /\ Idle \/ call.op = "timetodistance"
    /\ \E g \in {timedistance_get(timedistance, dec_ref)} :
          /\ timedistance' = g.td
          /\ call' = LookupCall("distancetotime", idistance,
                                IF call.op = "timetodistance" /\ call.status = "ok"
                                   /\ call.ret = idistance
                                THEN Some(call.needle) ELSE None,
                                g,
                                IF g.status = "ok"
                                THEN tdlookup(idistance, g.td.distances, g.td.times)
                                ELSE Raise(g.status))
    /\ UNCHANGED <<dec_ref, dec_laps, bestlap_memo>>

(* XRK.bestlap, a cached_property *)
BestLap ==
    /\ Idle
    /\ \E b \in {IF bestlap_memo = None THEN bestlap(lap_info(dec_laps))
                  ELSE bestlap_memo[1]} :
          /\ bestlap_memo' = Some(b)
          /\ call' = [NoCall EXCEPT !.op = "bestlap", !.ret = b]
    /\ UNCHANGED <<dec_ref, dec_laps, timedistance>>

(* channel.samples(lap, xtime, xabsolute) with the decoder's answers *)
Samples(ch, lap, xtime, xabsolute, sess, lapr) ==
    /\ Idle
    /\ \E g \in {timedistance_get(timedistance, dec_ref)} :
        \E s \in {samples(lap, xtime, xabsolute, sess, lapr, g, lap_info(dec_laps))} :
          /\ timedistance' = IF s.td_read THEN g.td ELSE timedistance
          /\ call' = [NoCall EXCEPT !.op = "samples", !.ch = ch, !.lap = lap,
                                    !.xtime = xtime, !.xabsolute = xabsolute,
                                    !.status = s.status, !.x = s.x, !.y = s.y,
                                    !.sample_count = s.sample_count,
                                    !.count_calls = s.count_calls,
                                    !.fetch_calls = s.fetch_calls,
                                    !.ptimes = s.ptimes, !.lookups = s.lookups,
                                    !.td_read = s.td_read,
                                    !.built = s.td_read /\ g.built,
                                    !.ref_fetch_calls =
                                        IF s.td_read THEN g.fetch_calls ELSE <<>>]
    /\ UNCHANGED <<dec_ref, dec_laps, bestlap_memo>>

DoTimeToDistance == \E t \in Span(IndexOf(dec_ref).times) : TimeToDistance(t)
(* a distance around the index, or the one timetodistance just returned *)
DoDistanceToTime ==
    \E d \in Span(IndexOf(dec_ref).distances)
              \cup (IF call.op = "timetodistance" /\ call.status = "ok"
                    THEN {call.ret} ELSE {}) :
        DistanceToTime(d)
DoSamples ==
    \E ch \in Channels, lap \in LapArgs, xtime \in BOOLEAN, xabsolute \in BOOLEAN :
        \E sess \in IF ch = "GPS Speed" THEN {dec_ref}
                    ELSE IF Truthy(lap) THEN SessProbes ELSE SessResponses,
           lapr \in IF Truthy(lap) THEN LapResponses ELSE {dec_ref} :
            Samples(ch, lap, xtime, xabsolute, sess, lapr)

Start(refs, laps) ==
    /\ dec_ref \in refs
    /\ dec_laps \in laps
    /\ timedistance = NotBuilt
    /\ bestlap_memo = None
    /\ call = NoCall

(* a session: samples and the two lookups, over the cached index *)
Init == Start(RefResponses(MaxRefSamples, {6000}, {1, 3}) \cup BadResponses,
              LapTables(MaxLaps, {6}))
Next == DoTimeToDistance \/ DoDistanceToTime \/ DoSamples \/ Forget
Spec == Init /\ [][Next]_vars

(* the index and its two lookups, over every reference channel *)
InitIndex == Start(RefResponses(MaxRefSamples, RefGaps, RefSpeeds), {<<>>})
NextIndex == DoTimeToDistance \/ DoDistanceToTime \/ Forget
SpecIndex == InitIndex /\ [][NextIndex]_vars

(* the lap table and its best lap *)
InitLaps == Start({Good(<<0>>, <<1>>)}, LapTables(MaxLaps + 1, LapRawDurations))
NextLaps == BestLap \/ Forget
SpecLaps == InitLaps /\ [][NextLaps]_vars

--------------------------------------------------------------------------
(* Claims *)

IsLookup == call.op \in {"timetodistance", "distancetotime"}
Haystack == IF call.op = "timetodistance" THEN timedistance.times
            ELSE timedistance.distances
Codomain == IF call.op = "timetodistance" THEN timedistance.distances
            ELSE timedistance.times
RoundTripped ==
    /\ call.op = "distancetotime"
    /\ call.chain # None
    /\ timedistance.built
    /\ call.chain[1] \in Range(timedistance.times)

RefNonNegative == \A i \in 1..Len(dec_ref.values) : dec_ref.values[i] >= 0

(* C1, as stated: for every time t that equals an entry of the index's     *)
(* time array, distancetotime(timetodistance(t)) returns exactly t.  It is *)
(* stated here for the indexes built from non-negative speeds, which are   *)
(* among the "every index" of the claim.                                   *)
C1_RoundTripEveryIndex ==
    (RoundTripped /\ RefNonNegative)
        => (call.status = "ok" /\ call.ret = call.chain[1])

(* C1, amended: the round trip returns exactly t for every t that equals   *)
(* an entry of the time array, provided the index's distance array is      *)
(* strictly increasing (no two index samples share a distance).            *)
C1_RoundTripStrictDistance ==
    (RoundTripped /\ IsStrict(timedistance.distances))
        => (call.status = "ok" /\ call.ret = call.chain[1])

C1_Witness ==
    /\ RoundTripped
    /\ IsStrict(timedistance.distances)
    /\ Len(timedistance.times) = MaxRefSamples
    /\ call.chain[1] = timedistance.times[2]
    /\ call.ret = call.chain[1]

(* C2: samples(lap) uses the whole-session count, the whole-session fetch  *)
(* and the divide-by-1000 normalisation only when lap is None; for every   *)
(* given lap index, 0 included, it uses the lap-scoped count and fetch and *)
(* only rounds the timestamps.  Stated for the calls that return, on a lap *)
(* the lap table holds.                                                    *)
C2_LapScoping ==
    ( /\ call.op = "samples" /\ call.status = "ok"
      /\ call.lap # None => call.lap[1] < Len(dec_laps) ) =>
        LET last == call.count_calls[Len(call.count_calls)]
            plain == call.status = "ok" /\ call.xtime /\ call.xabsolute
        IN  IF call.lap = None
            THEN /\ last[1] = "get_channel_samples_count"
                 /\ \A i \in 1..Len(call.fetch_calls) :
                        call.fetch_calls[i][1] = "get_channel_samples"
                 /\ plain => call.x = [i \in 1..Len(call.ptimes) |->
                                         NormSession(call.ptimes[i])]
            ELSE /\ last[1] = "get_lap_channel_samples_count"
                 /\ \A i \in 1..Len(call.fetch_calls) :
                        call.fetch_calls[i][1] = "get_lap_channel_samples"
                 /\ plain => call.x = [i \in 1..Len(call.ptimes) |->
                                         NormLap(call.ptimes[i])]

(* C3: for a needle strictly between two adjacent haystack entries         *)
(* h[k] < needle < h[k+1], the lookup returns the linear interpolation of  *)
(* codomain[k] and codomain[k+1] at the needle, which lies between them.   *)
(* Stated for the indexes built from non-negative speeds.                  *)
C3_InterpolatesBracket ==
    (IsLookup /\ timedistance.built /\ RefNonNegative) =>
        \A k \in 1..(Len(Haystack) - 1) :
            (Haystack[k] < call.needle /\ call.needle < Haystack[k + 1]) =>
                LET h0 == Haystack[k]
                    h1 == Haystack[k + 1]
                    c0 == Codomain[k]
                    c1 == Codomain[k + 1]
                    lo == IF c0 <= c1 THEN c0 ELSE c1
                    hi == IF c0 <= c1 THEN c1 ELSE c0
                IN  /\ call.status = "ok"
                    /\ call.ret = RoundDiv(c0 * (h1 - h0)
                                           + (c1 - c0) * (call.needle - h0), h1 - h0)
                    /\ lo <= call.ret /\ call.ret <= hi

(* C4: when the raw timestamps are non-decreasing and the reference speeds *)
(* are non-negative, the x-sequence samples() returns is non-decreasing,   *)
(* for every channel and every (lap, xtime, xabsolute).                    *)
C4_AscendingX ==
    ( /\ call.op = "samples" /\ call.status = "ok"
      /\ IsSorted(call.ptimes)
      /\ IsSorted(dec_ref.times)
      /\ RefNonNegative )
        => IsSorted(call.x)

(* C5: every samples() call that returns gives two sequences of equal      *)
(* length, the sample count the decoder reported for the call.             *)
C5_EqualLength ==
    (call.op = "samples" /\ call.status = "ok") =>
        /\ Len(call.x) = Len(call.y)
        /\ Len(call.x) = call.count_calls[Len(call.count_calls)][2]
        /\ Len(call.x) > 0

C5_Witness ==
    /\ call.op = "samples" /\ call.status = "ok"
    /\ call.lap = Some(1) /\ ~call.xtime /\ ~call.xabsolute
    /\ Len(call.x) = MaxChanSamples

(* C6: for every non-empty lap table, bestlap is the lowest index whose    *)
(* duration is the minimum of all lap durations.                           *)
C6_BestLapFirstMinimum ==
    (call.op = "bestlap" /\ Len(dec_laps) > 0) =>
        LET info == lap_info(dec_laps)
        IN  /\ call.ret \in 0..(Len(info) - 1)
            /\ \A j \in 0..(Len(info) - 1) :
                   info[j + 1].duration >= info[call.ret + 1].duration
            /\ \A j \in 0..(call.ret - 1) :
                   info[j + 1].duration > info[call.ret + 1].duration

C6_Witness ==
    /\ call.op = "bestlap"
    /\ Len(dec_laps) = MaxLaps + 1
    /\ call.ret = 1
    /\ lap_info(dec_laps)[3].duration = lap_info(dec_laps)[2].duration

(* C7: if the decoder reports a non-positive sample count for the          *)
(* requested scope, or the fetch reports failure, samples() aborts with    *)
(* the assertion failure, returns no (x, y), performs no lookup and calls  *)
(* the fetch at most once.                                                 *)
CountFailed ==
    \E i \in 1..Len(call.count_calls) :
        /\ call.count_calls[i][1] = IF call.lap = None
                                     THEN "get_channel_samples_count"
                                     ELSE "get_lap_channel_samples_count"
        /\ call.count_calls[i][2] <= 0
FetchFailed ==
    \E i \in 1..Len(call.fetch_calls) : call.fetch_calls[i][2] <= 0

C7_ContractViolationFatal ==
    (call.op = "samples" /\ (CountFailed \/ FetchFailed)) =>
        /\ call.status = "AssertionError"
        /\ call.x = <<>> /\ call.y = <<>>
        /\ call.lookups = 0 /\ ~call.td_read
        /\ Len(call.fetch_calls) <= 1
        /\ CountFailed => call.fetch_calls = <<>>

C7_Witness ==
    /\ call.op = "samples"
    /\ FetchFailed
    /\ ~call.xtime
    /\ call.lap = Some(1)
    /\ call.status = "AssertionError"

C9_IndexConstruction ==
    timedistance.built =>
        LET t == timedistance.times
            d == timedistance.distances
            v == dec_ref.values
            n == dec_ref.count
        IN  /\ n >= 1
            /\ t = [i \in 1..n |-> NormSession(dec_ref.times[i])]
            /\ Len(d) = n
            /\ d[1] = 0
            /\ \A i \in 2..n : d[i] = d[i - 1] + (t[i] - t[i - 1]) * v[i]
            /\ (IsSorted(t) /\ \A i \in 1..n : v[i] >= 0) => IsSorted(d)

C9_Witness ==
    /\ timedistance.built
    /\ Len(timedistance.distances) = MaxRefSamples
    /\ dec_ref.values[1] # dec_ref.values[2]
    /\ timedistance.distances[2] > 0
    /\ timedistance.distances[3] > timedistance.distances[2]

(* C10: with an index of at least one sample, every needle gets a value    *)
(* from timetodistance and distancetotime; none fails with an out-of-range *)
(* index access.                                                           *)
C10_LookupTotal ==
    (IsLookup /\ timedistance.built /\ Len(timedistance.times) >= 1)
        => call.status = "ok"

==========================================================================
